---- MODULE Spec2Model ----
(***************************************************************************)
(* A model of seleniumuser.User (src/src/seleniumuser/seleniumuser.py):    *)
(* the condition poller wait_until, the timing profile switched by turbo,  *)
(* the randomized delay chill and the operations that take delays,         *)
(* get_click_list, click_elements, the tab helpers, get() with user-agent  *)
(* rotation and the opening and closing of the browser.                    *)
(*                                                                         *)
(* User is single-threaded and blocking: pc is the position of the one     *)
(* thread of control, and an operation starts only at pc = "idle".         *)
(* Wall-clock time is the variable now, in seconds; it advances only       *)
(* where the code blocks (a condition being evaluated, a sleep) or         *)
(* between operations.                                                     *)
(***************************************************************************)
EXTENDS Integers, Sequences, FiniteSets

\* ------------------------------------------------------------------ bounds
MaxWait == 2
MaxPoll == 2
MaxEvals == 3
\* random.random() is drawn from {0, 1/RandRes, ..., 1}
RandRes == 2
\* longest string typed, longest data list of fill_next, most key presses
MaxStr == 2
MaxData == 2
MaxPresses == 2
\* most options given to get_click_list
MaxOptions == 3
\* most locators given to click_elements
MaxLocators == 3
\* most tabs open at once, most browsers opened, longest rotation period
\* (minutes) and the clock of the browser specification: MaxElapse steps
\* of ClockStep seconds
MaxTabs == 3
MaxOpens == 3
MaxPeriod == 1
MaxElapse == 4
ClockStep == 30

\* The clock saturates past the largest max_wait plus the longest sleep:
\* every comparison of the model reads the same below it.
MaxNow == MaxWait + MaxPoll + 2

\* ------------------------------------------------------- program constants
\* time.sleep(1) after the condition became true
SettleDelay == 1
\* 60 * self.user_agent_rotation_period
SecondsPerMinute == 60

VARIABLES
    pc,               \* position of the thread of control
    now,              \* time.time(), seconds, saturating at MaxNow
    \* ---- wait_until
    start_time,       \* local start_time
    max_wait,         \* argument
    polling_interval, \* argument
    cond_result,      \* outcome of the last evaluation of condition()
    eval_began,       \* the clock when the last evaluation began
    wu_hist,          \* history of the call: evaluations counted by outcome
    \* ---- timing profile (seconds are written in milliseconds)
    after_key_wait,
    after_field_wait,
    after_click_wait,
    arrival_wait,
    one_key_at_a_time,
    turbo_engaged,
    last_engage,      \* the argument of the most recent call of turbo
    last_delay,       \* the last time.sleep taken by chill
    \* ---- send_keys / fill_next
    op,               \* locals of the operation in progress
    received,         \* what the element typed into has been sent, in order
    \* ---- get_click_list
    click_list,       \* local click_list, returned at the end
    selected_indexes, \* local selected_indexes
    gcl,              \* arguments and the other locals of the call
    \* ---- click_elements
    ce,               \* arguments and locals of the call, and what it clicked
    \* ---- the browser
    randomize_user_agent,
    user_agent_rotation_period, \* <<>> is None, <<m>> is m minutes
    browser_open,
    browser,          \* the webdriver instance self.browser refers to; 0 is None
    tab_index,
    rotation_timer,   \* noiftimer.Timer: started, start_time
    window_handles,   \* self.browser.window_handles
    focus,            \* the window handle the driver is switched to; 0 is none
    alive,            \* the webdriver instances created and not yet quit
    history,          \* browsers opened and quit so far, when the last was opened
    last_op           \* the last browser operation: its arguments and what it met

wu_vars == <<start_time, max_wait, polling_interval, cond_result, eval_began, wu_hist>>

profile_vars == <<after_key_wait, after_field_wait, after_click_wait, arrival_wait,
                  one_key_at_a_time, turbo_engaged, last_engage>>

op_vars == <<op, received>>

gcl_vars == <<click_list, selected_indexes, gcl>>

user_vars == <<randomize_user_agent, user_agent_rotation_period>>

driver_vars == <<browser_open, browser, tab_index, rotation_timer, window_handles,
                 focus, alive, history>>

br_vars == <<user_vars, driver_vars, last_op>>

vars == <<pc, now, wu_vars, profile_vars, last_delay, op_vars, gcl_vars, ce, br_vars>>

\* what wait_until leaves alone, what the timed operations leave alone and
\* what get_click_list leaves alone
not_wait == <<profile_vars, last_delay, op_vars, gcl_vars, ce, br_vars>>
not_timed == <<now, wu_vars, gcl_vars, ce, br_vars>>
not_gcl == <<now, wu_vars, profile_vars, last_delay, op_vars, ce, br_vars>>
\* what the browser operations leave alone
not_browser == <<wu_vars, profile_vars, op_vars, gcl_vars, ce, user_vars>>
\* what click_elements leaves alone
not_elements == <<now, wu_vars, profile_vars, op_vars, gcl_vars, br_vars>>

Min(a, b) == IF a < b THEN a ELSE b

Advance(t, d) == Min(t + d, MaxNow)

\* -------------------------------------------------------------------------
\* wait_until
\* -------------------------------------------------------------------------

Outcomes == {"true", "false", "raise"}

\* evals, raises, falses: evaluations so far, by outcome (counted up to
\* MaxEvals); late: some evaluation that did not return true finished after
\* max_wait; last_late: the last evaluation did; raised_at: the elapsed time
\* read by the check that raised TimeoutError.
NoHist == [evals |-> 0, raises |-> 0, falses |-> 0, late |-> FALSE,
           last_late |-> FALSE, raised_at |-> -1]

Count(n) == Min(n + 1, MaxEvals)

\* (time.time() - start_time) > max_wait
MaxWaitExceeded_AtLeast == (now - start_time) >= max_wait
MaxWaitExceeded == (now - start_time) > max_wait

\* Where control goes when condition() raises inside the try block: the
\* bare except clause catches everything.
CondRaised_Propagate == "Raised"
CondRaised == "wu_except"

\* The try body after condition() returned false: the elif branch raises
\* TimeoutError, which the bare except clause catches too; the else branch
\* sleeps.
AfterFalse == IF MaxWaitExceeded THEN "wu_except" ELSE "wu_sleep"

\* The except clause: raise TimeoutError or sleep and retry.
InExcept_AlwaysRaise == "TimedOut"
InExcept == IF MaxWaitExceeded THEN "TimedOut" ELSE "wu_sleep_h"

\* Follows the non-blocking control flow from position p to the next
\* blocking position or terminal state.
Settle(p) == IF p = "wu_except" THEN InExcept ELSE p

\* start_time = time.time(); the loop is entered and condition() is called.
WaitUntil(mw, pi) ==
    /\ pc = "idle"
    /\ start_time' = now
    /\ max_wait' = mw
    /\ polling_interval' = pi
    /\ cond_result' = "none"
    /\ eval_began' = now
    /\ wu_hist' = NoHist
    /\ pc' = "wu_eval"
    /\ UNCHANGED <<now, not_wait>>

\* Time passes while condition() is being evaluated.
Tick ==
    /\ pc = "wu_eval"
    /\ now < MaxNow
    /\ now' = now + 1
    /\ UNCHANGED <<pc, wu_vars, not_wait>>

\* condition() returns or raises; the clock is read at once by the branch taken.
CondReturns(o) ==
    /\ pc = "wu_eval"
    /\ cond_result' = o
    /\ pc' = CASE o = "true" -> "wu_settle"
               [] o = "false" -> Settle(AfterFalse)
               [] o = "raise" -> Settle(CondRaised)
    /\ wu_hist' = [wu_hist EXCEPT
                     !.evals = Count(@),
                     !.raises = IF o = "raise" THEN Count(@) ELSE @,
                     !.falses = IF o = "false" THEN Count(@) ELSE @,
                     !.late = @ \/ (o # "true" /\ (now - start_time) > max_wait),
                     !.last_late = (now - start_time) > max_wait,
                     !.raised_at = IF pc' = "TimedOut" THEN now - start_time ELSE @]
    /\ UNCHANGED <<now, start_time, max_wait, polling_interval, eval_began>>
    /\ UNCHANGED not_wait

\* time.sleep(polling_interval), in the try body or in the except clause,
\* then the loop evaluates condition() again.
Sleep ==
    /\ pc \in {"wu_sleep", "wu_sleep_h"}
    /\ \E over \in 0..1 :
         /\ now' = Advance(now, polling_interval + over)
         /\ eval_began' = now'
    /\ pc' = "wu_eval"
    /\ UNCHANGED <<start_time, max_wait, polling_interval, cond_result, wu_hist>>
    /\ UNCHANGED not_wait

\* time.sleep(1); break
SettleSleep ==
    /\ pc = "wu_settle"
    /\ now' = Advance(now, SettleDelay)
    /\ pc' = "Success"
    /\ UNCHANGED <<wu_vars, not_wait>>

\* -------------------------------------------------------------------------
\* The timing profile: turbo
\* -------------------------------------------------------------------------

\* The six attributes turbo(engage=True) assigns, seconds in milliseconds.
TurboProfile ==
    [after_key_wait |-> <<0, 0>>, after_field_wait |-> <<0, 0>>,
     after_click_wait |-> <<0, 0>>, arrival_wait |-> <<1000, 1000>>,
     one_key_at_a_time |-> FALSE, turbo_engaged |-> TRUE]

\* The six attributes turbo(engage=False) assigns.
HumanProfile ==
    [after_key_wait |-> <<100, 500>>, after_field_wait |-> <<1000, 2000>>,
     after_click_wait |-> <<250, 1500>>, arrival_wait |-> <<4000, 10000>>,
     one_key_at_a_time |-> TRUE, turbo_engaged |-> FALSE]

\* if engage: ... else: ...
ProfileFor_ElseKeepsClickWait(engage) ==
    IF engage THEN TurboProfile
    ELSE [HumanProfile EXCEPT !.after_click_wait = after_click_wait]
ProfileFor(engage) == IF engage THEN TurboProfile ELSE HumanProfile

\* turbo(engage): six attribute assignments of the one thread; no other
\* code of User runs between them.
Turbo(engage) ==
    /\ pc = "idle"
    /\ LET p == ProfileFor(engage) IN
         /\ after_key_wait' = p.after_key_wait
         /\ after_field_wait' = p.after_field_wait
         /\ after_click_wait' = p.after_click_wait
         /\ arrival_wait' = p.arrival_wait
         /\ one_key_at_a_time' = p.one_key_at_a_time
         /\ turbo_engaged' = p.turbo_engaged
    /\ last_engage' = engage
    /\ UNCHANGED <<pc, last_delay, op_vars, not_timed>>

\* -------------------------------------------------------------------------
\* chill and the operations that take delays
\* -------------------------------------------------------------------------

\* random.uniform(a, b) == a + (b - a) * random(), random() = r / RandRes;
\* the end point b may be returned (floating-point rounding).
Uniform_Stretched(a, b, r) == a + ((b - a + RandRes) * r) \div RandRes
Uniform(a, b, r) == a + ((b - a) * r) \div RandRes

NoDelay == [by |-> "none", after |-> "none", range |-> <<0, 0>>, d |-> 0, turbo |-> TRUE]

\* chill(min_max), called by operation `by` for the wait `after`:
\* time.sleep(random.uniform(min_max[0], min_max[1]))
Chill(by, after, min_max) ==
    \E r \in 0..RandRes :
        last_delay' = [by |-> by, after |-> after, range |-> min_max,
                       d |-> Uniform(min_max[1], min_max[2], r),
                       turbo |-> turbo_engaged]

\* Ranges a caller may pass to chill directly: closed intervals [min, max].
Ranges == {<<0, 0>>, <<1000, 1000>>, <<100, 500>>, <<0, 3>>}

\* A direct call of chill.
ChillCall(min_max) ==
    /\ pc = "idle"
    /\ Chill("chill", "call", min_max)
    /\ UNCHANGED <<pc, profile_vars, op_vars, not_timed>>

\* click, clear, scroll, scroll_into_view: act on the page, then
\* chill(self.after_click_wait)
ClickLike == {"click", "clear", "scroll", "scroll_into_view"}

ClickOp(name) ==
    /\ pc = "idle"
    /\ Chill(name, "click", after_click_wait)
    /\ UNCHANGED <<pc, profile_vars, op_vars, not_timed>>

\* select: element = self.click(locator) ...
SelectClick ==
    /\ pc = "idle"
    /\ Chill("select", "click", after_click_wait)
    /\ pc' = "select_field"
    /\ UNCHANGED <<profile_vars, op_vars, not_timed>>

\* ... Select(element).select_by_...; self.chill(self.after_field_wait)
SelectField ==
    /\ pc = "select_field"
    /\ Chill("select", "field", after_field_wait)
    /\ pc' = "idle"
    /\ UNCHANGED <<profile_vars, op_vars, not_timed>>

\* ---- data typed into elements

\* the string "abab..." of k characters, as a sequence of characters
Text(k) == [i \in 1..k |-> IF i % 2 = 1 THEN "a" ELSE "b"]

\* strings of at most n characters, the empty string among them
Strings(n) == {Text(k) : k \in 0..n}

Digit(i) == CASE i = 0 -> "0" [] i = 1 -> "1" [] i = 2 -> "2" [] i = 3 -> "3"
              [] i = 4 -> "4" [] i = 5 -> "5" [] i = 6 -> "6" [] i = 7 -> "7"
              [] i = 8 -> "8" [] i = 9 -> "9"

RECURSIVE Digits(_)
Digits(n) == IF n < 10 THEN <<Digit(n)>> ELSE Append(Digits(n \div 10), Digit(n % 10))

\* str(data): a str is itself, a non-negative int is its decimal digits
Str(x) == IF x.type = "int" THEN Digits(x.val) ELSE x.val

\* The data send_keys is given: strings and ints.
KeyData == {[type |-> "str", val |-> v] : v \in Strings(MaxStr)}
             \cup {[type |-> "int", val |-> n] : n \in {7, 10}}

NoOp == [name |-> "none"]

\* send_keys: element = self.click(locator) if click_first else self.find(locator)
SendKeys(data, click_first, clear_first) ==
    /\ pc = "idle"
    /\ op' = [name |-> "send_keys", datum |-> data, todo |-> Str(data),
              clear_first |-> clear_first]
    /\ received' = <<>>
    /\ pc' = IF click_first THEN "sk_click"
             ELSE IF clear_first THEN "sk_clear" ELSE "sk_type"
    /\ UNCHANGED <<profile_vars, last_delay, not_timed>>

\* self.click(locator): ... self.chill(self.after_click_wait)
SkClick ==
    /\ pc = "sk_click"
    /\ Chill("send_keys", "click", after_click_wait)
    /\ pc' = IF op.clear_first THEN "sk_clear" ELSE "sk_type"
    /\ UNCHANGED <<profile_vars, op_vars, not_timed>>

\* element.clear(); self.chill(self.after_click_wait)
SkClear ==
    /\ pc = "sk_clear"
    /\ Chill("send_keys", "click", after_click_wait)
    /\ pc' = "sk_type"
    /\ UNCHANGED <<profile_vars, op_vars, not_timed>>

\* for ch in str(data): element.send_keys(ch); self.chill(self.after_key_wait)
SkKey ==
    /\ pc = "sk_type"
    /\ one_key_at_a_time
    /\ op.todo # <<>>
    /\ received' = Append(received, <<Head(op.todo)>>)
    /\ op' = [op EXCEPT !.todo = Tail(@)]
    /\ Chill("send_keys", "key", after_key_wait)
    /\ UNCHANGED <<pc, profile_vars, not_timed>>

\* else: element.send_keys(str(data)); and the end of the for loop
SkTyped ==
    /\ pc = "sk_type"
    /\ IF one_key_at_a_time
       THEN op.todo = <<>> /\ UNCHANGED <<op, received>>
       ELSE /\ received' = Append(received, op.todo)
            /\ op' = [op EXCEPT !.todo = <<>>]
    /\ pc' = "sk_field"
    /\ UNCHANGED <<profile_vars, last_delay, not_timed>>

\* self.chill(self.after_field_wait); return element
SkField ==
    /\ pc = "sk_field"
    /\ Chill("send_keys", "field", after_field_wait)
    /\ pc' = "idle"
    /\ UNCHANGED <<profile_vars, op_vars, not_timed>>

\* ---- fill_next

\* The items of data: 'skip', ('downArrow', n), ('downArrow', (lo, hi)) and
\* strings to type.
FnData == {[type |-> "skip"]}
            \cup {[type |-> "downArrow", lo |-> 1, hi |-> 1],
                  [type |-> "downArrow", lo |-> 0, hi |-> MaxPresses]}
            \cup {[type |-> "str", val |-> v] : v \in Strings(MaxStr)}

DataLists == UNION {[1..k -> FnData] : k \in 0..MaxData}

\* fill_next(data): element = the active element; the for loop is entered.
FillNext(data) ==
    /\ pc = "idle"
    /\ op' = [name |-> "fill_next", data |-> data, datum |-> [type |-> "none"],
              todo |-> <<>>, times |-> 0]
    /\ received' = <<>>
    /\ pc' = "fn_next"
    /\ UNCHANGED <<profile_vars, last_delay, not_timed>>

\* for datum in data: element.send_keys(Keys.TAB);
\* element = self.browser.switch_to.active_element, which has received
\* nothing yet; self.chill(self.after_key_wait); then the branch on datum is
\* chosen. datum[0] of the empty string raises IndexError, which leaves
\* fill_next.
FnTab ==
    /\ pc = "fn_next"
    /\ op.data # <<>>
    /\ received' = <<>>
    /\ Chill("fill_next", "key", after_key_wait)
    /\ LET datum == Head(op.data) IN
         \E times \in 0..MaxPresses :
            /\ IF datum.type = "downArrow"
               THEN times \in datum.lo..datum.hi
               ELSE times = 0
            /\ op' = [op EXCEPT !.data = Tail(@),
                                !.datum = datum,
                                !.todo = IF datum.type = "str" THEN Str(datum) ELSE <<>>,
                                !.times = times]
            /\ pc' = CASE datum.type = "downArrow" -> "fn_arrow"
                       [] datum.type = "skip" -> "fn_skip"
                       [] datum.type = "str" /\ datum.val = <<>> -> "fn_raised"
                       [] OTHER -> "fn_type"
    /\ UNCHANGED <<profile_vars, not_timed>>

\* the for loop is exhausted: return element
FnReturn ==
    /\ pc = "fn_next"
    /\ op.data = <<>>
    /\ pc' = "idle"
    /\ UNCHANGED <<profile_vars, last_delay, op_vars, not_timed>>

\* for _ in range(times): element.send_keys(Keys.ARROW_DOWN); self.chill(self.after_key_wait)
FnArrow ==
    /\ pc = "fn_arrow"
    /\ op.times > 0
    /\ received' = Append(received, <<"ARROW_DOWN">>)
    /\ op' = [op EXCEPT !.times = @ - 1]
    /\ Chill("fill_next", "key", after_key_wait)
    /\ UNCHANGED <<pc, profile_vars, not_timed>>

FnArrowDone ==
    /\ pc = "fn_arrow"
    /\ op.times = 0
    /\ pc' = "fn_field"
    /\ UNCHANGED <<profile_vars, last_delay, op_vars, not_timed>>

\* elif datum == "skip": self.chill(self.after_key_wait)
FnSkip ==
    /\ pc = "fn_skip"
    /\ Chill("fill_next", "key", after_key_wait)
    /\ pc' = "fn_field"
    /\ UNCHANGED <<profile_vars, op_vars, not_timed>>

\* for ch in str(datum): element.send_keys(ch); self.chill(self.after_key_wait)
FnKey ==
    /\ pc = "fn_type"
    /\ ~turbo_engaged
    /\ op.todo # <<>>
    /\ received' = Append(received, <<Head(op.todo)>>)
    /\ op' = [op EXCEPT !.todo = Tail(@)]
    /\ Chill("fill_next", "key", after_key_wait)
    /\ UNCHANGED <<pc, profile_vars, not_timed>>

\* if self.turbo_engaged: element.send_keys(str(datum)); and the end of the
\* for loop over the characters
FnTyped ==
    /\ pc = "fn_type"
    /\ IF turbo_engaged
       THEN /\ received' = Append(received, op.todo)
            /\ op' = [op EXCEPT !.todo = <<>>]
       ELSE op.todo = <<>> /\ UNCHANGED <<op, received>>
    /\ pc' = "fn_field"
    /\ UNCHANGED <<profile_vars, last_delay, not_timed>>

\* self.chill(self.after_field_wait), the last statement of the loop body
FnField ==
    /\ pc = "fn_field"
    /\ Chill("fill_next", "field", after_field_wait)
    /\ pc' = "fn_next"
    /\ UNCHANGED <<profile_vars, op_vars, not_timed>>

\* -------------------------------------------------------------------------
\* get_click_list
\* -------------------------------------------------------------------------

\* the elements of a sequence
Range(seq) == {seq[j] : j \in 1..Len(seq)}

NoCall == [num_options |-> 0, max_choices |-> 0, min_choices |-> 0,
           k |-> 0, i |-> 0, index |-> 0, returned |-> FALSE]

\* while index in selected_indexes
AlreadySelected_Never(index) == FALSE
AlreadySelected(index) == index \in Range(selected_indexes)

\* click_list = ["skip"] * num_options; selected_indexes = [];
\* range(random.randint(min_choices, max_choices)) is evaluated once.
GetClickList(num_options, max_choices, min_choices) ==
    /\ pc = "idle"
    /\ click_list' = [j \in 1..num_options |-> "skip"]
    /\ selected_indexes' = <<>>
    /\ \E k \in min_choices..max_choices :
         gcl' = [num_options |-> num_options, max_choices |-> max_choices,
                 min_choices |-> min_choices, k |-> k, i |-> 0, index |-> 0,
                 returned |-> FALSE]
    /\ pc' = "gcl_for"
    /\ UNCHANGED not_gcl

\* for i in range(k): index = random.randint(0, num_options - 1)
GclDraw ==
    /\ pc = "gcl_for"
    /\ gcl.i < gcl.k
    /\ \E index \in 0..(gcl.num_options - 1) : gcl' = [gcl EXCEPT !.index = index]
    /\ pc' = "gcl_while"
    /\ UNCHANGED <<click_list, selected_indexes, not_gcl>>

\* while index in selected_indexes: index = random.randint(0, num_options - 1)
GclRedraw ==
    /\ pc = "gcl_while"
    /\ AlreadySelected(gcl.index)
    /\ \E index \in 0..(gcl.num_options - 1) : gcl' = [gcl EXCEPT !.index = index]
    /\ UNCHANGED <<pc, click_list, selected_indexes, not_gcl>>

\* selected_indexes.append(index); click_list[index] = self.keys.SPACE
GclSelect ==
    /\ pc = "gcl_while"
    /\ ~AlreadySelected(gcl.index)
    /\ selected_indexes' = Append(selected_indexes, gcl.index)
    /\ click_list' = [click_list EXCEPT ![gcl.index + 1] = "SPACE"]
    /\ gcl' = [gcl EXCEPT !.i = @ + 1]
    /\ pc' = "gcl_for"
    /\ UNCHANGED not_gcl

\* return click_list
GclReturn ==
    /\ pc = "gcl_for"
    /\ gcl.i = gcl.k
    /\ gcl' = [gcl EXCEPT !.returned = TRUE]
    /\ pc' = "idle"
    /\ UNCHANGED <<click_list, selected_indexes, not_gcl>>

\* -------------------------------------------------------------------------
\* click_elements
\* -------------------------------------------------------------------------

\* A locator list: n different locators, or the same locator twice.
LocatorLists == {[i \in 1..n |-> i] : n \in 1..MaxLocators} \cup {<<1, 1>>}

\* The values of the argument max_selections for a list of n locators:
\* <<>> is None (not given), <<m>> is the int m.
MaxSelectionArgs(n) == {<<>>} \cup {<<m>> : m \in 0..n}

\* if not max_selections: max_selections = len(locators)
\* None and 0 are both false.
MaxSelections(locators, max_selections) ==
    IF max_selections = <<>> \/ max_selections[1] = 0
    THEN Len(locators)
    ELSE max_selections[1]

\* random.sample(locators, k): k positions of the list, none twice, in any
\* order
Samples(locators, k) ==
    {s \in [1..k -> 1..Len(locators)] : \A i, j \in 1..k : i # j => s[i] # s[j]}

\* element is <<>> while the local is unbound; returned is <<>> until the
\* call returns.
NoElements == [locators |-> <<>>, max_selections |-> <<>>, min_selections |-> 0,
               k |-> 0, todo |-> <<>>, clicked |-> <<>>, element |-> <<>>,
               returned |-> <<>>]

\* click_elements(locators, max_selections, min_selections): the default is
\* applied, then random.randint and random.sample are evaluated once.
ClickElements(locators, max_selections, min_selections) ==
    /\ pc = "idle"
    /\ \E k \in min_selections..MaxSelections(locators, max_selections) :
         \E s \in Samples(locators, k) :
            ce' = [locators |-> locators, max_selections |-> max_selections,
                   min_selections |-> min_selections, k |-> k, todo |-> s,
                   clicked |-> <<>>, element |-> <<>>, returned |-> <<>>]
    /\ pc' = "ce_for"
    /\ UNCHANGED <<last_delay, not_elements>>

\* for option in ...: element = self.click(option), which ends with
\* self.chill(self.after_click_wait)
CeClick ==
    /\ pc = "ce_for"
    /\ ce.todo # <<>>
    /\ ce' = [ce EXCEPT !.todo = Tail(@),
                        !.clicked = Append(@, Head(ce.todo)),
                        !.element = <<ce.locators[Head(ce.todo)]>>]
    /\ Chill("click_elements", "click", after_click_wait)
    /\ UNCHANGED <<pc, not_elements>>

\* return element: with no iteration done the local is unbound and the
\* statement raises UnboundLocalError.
CeReturn ==
    /\ pc = "ce_for"
    /\ ce.todo = <<>>
    /\ IF ce.element = <<>>
       THEN pc' = "ce_raised" /\ UNCHANGED ce
       ELSE pc' = "idle" /\ ce' = [ce EXCEPT !.returned = ce.element]
    /\ UNCHANGED <<last_delay, not_elements>>

\* -------------------------------------------------------------------------
\* The browser: open_browser, close_browser, the tabs, get
\* -------------------------------------------------------------------------

\* The browser attributes of User and the state of its driver, as one value.
Cur ==
    [browser_open |-> browser_open, browser |-> browser, tab_index |-> tab_index,
     rotation_timer |-> rotation_timer, window_handles |-> window_handles,
     focus |-> focus, alive |-> alive, history |-> history]

\* The attributes and the driver take the values of b.
Becomes(b) ==
    /\ browser_open' = b.browser_open
    /\ browser' = b.browser
    /\ tab_index' = b.tab_index
    /\ rotation_timer' = b.rotation_timer
    /\ window_handles' = b.window_handles
    /\ focus' = b.focus
    /\ alive' = b.alive
    /\ history' = b.history

\* The attributes and the driver have the values of b.
Has(b) ==
    /\ browser_open = b.browser_open
    /\ browser = b.browser
    /\ tab_index = b.tab_index
    /\ rotation_timer = b.rotation_timer
    /\ window_handles = b.window_handles
    /\ focus = b.focus
    /\ alive = b.alive
    /\ history = b.history

\* Before open_browser was ever called: self.browser_open = False,
\* self.rotation_timer = Timer(), self.browser = None.
NeverOpened ==
    [browser_open |-> FALSE, browser |-> 0, tab_index |-> 0,
     rotation_timer |-> [started |-> FALSE, start_time |-> 0],
     window_handles |-> <<>>, focus |-> 0, alive |-> {},
     history |-> [opens |-> 0, quits |-> 0, opened_at |-> 0]]

\* open_browser at time t: a new webdriver with one window; warns and does
\* nothing when self.browser_open is True.
OpenBrowserOn(b, t) ==
    IF ~b.browser_open
    THEN [b EXCEPT !.browser = b.history.opens + 1,
                   !.alive = @ \cup {b.history.opens + 1},
                   !.window_handles = <<1>>,
                   !.focus = 1,
                   !.browser_open = TRUE,
                   !.tab_index = 0,
                   !.rotation_timer = [started |-> TRUE, start_time |-> t],
                   !.history = [@ EXCEPT !.opens = @ + 1, !.opened_at = t]]
    ELSE b

\* close_browser: self.browser_open = False; self.browser.quit(). quit ends
\* the session and its windows; on a driver already quit it does nothing.
CloseBrowserOn(b) ==
    [b EXCEPT !.browser_open = FALSE,
              !.alive = @ \ {b.browser},
              !.window_handles = <<>>,
              !.focus = 0,
              !.history = [@ EXCEPT !.quits = IF b.browser \in b.alive THEN @ + 1 ELSE @]]

\* self.rotation_timer.stop()
StopTimer(b) == [b EXCEPT !.rotation_timer = [@ EXCEPT !.started = FALSE]]

\* self.rotation_timer.check(format=False) at time t: seconds since start
TimerCheck(b, t) == t - b.rotation_timer.start_time

\* the condition of the if statement in get
RotationDue_PeriodInSeconds(b, t) ==
    /\ randomize_user_agent
    /\ user_agent_rotation_period # <<>>
    /\ TimerCheck(b, t) > user_agent_rotation_period[1]
RotationDue(b, t) ==
    /\ randomize_user_agent
    /\ user_agent_rotation_period # <<>>
    /\ TimerCheck(b, t) > SecondsPerMinute * user_agent_rotation_period[1]

\* Time passes between operations.
MaxClock == ClockStep * MaxElapse

Elapse ==
    /\ pc = "idle"
    /\ now < MaxClock
    /\ now' = now + ClockStep
    /\ UNCHANGED <<pc, br_vars, last_delay, not_browser>>

OpenBrowser ==
    /\ pc = "idle"
    /\ history.opens < MaxOpens
    /\ Becomes(OpenBrowserOn(Cur, now))
    /\ last_op' = [name |-> "open_browser", warned |-> browser_open,
                   before |-> [browser |-> browser, history |-> history]]
    /\ UNCHANGED <<pc, now, last_delay, not_browser>>

\* close_browser; with self.browser None, quit raises AttributeError after
\* browser_open was set to False.
CloseBrowser ==
    /\ pc = "idle"
    /\ Becomes(CloseBrowserOn(Cur))
    /\ last_op' = [name |-> "close_browser", raised |-> browser = 0]
    /\ UNCHANGED <<pc, now, last_delay, not_browser>>

\* ---- steps that raise

\* Where open_browser can raise: while configuring or constructing the
\* driver (self.browser is not assigned), or in the calls made on the new
\* driver (set_implicit_wait ... set_page_load_timeout), which come before
\* self.browser_open = True.
OpenStages == {"configure", "window"}

\* open_browser raising at the given stage; nothing catches the exception.
OpenBrowserFailsOn(b, stage) ==
    IF b.browser_open \/ stage = "configure"
    THEN b
    ELSE [b EXCEPT !.browser = b.history.opens + 1,
                   !.alive = @ \cup {b.history.opens + 1},
                   !.window_handles = <<1>>,
                   !.focus = 1,
                   !.history = [@ EXCEPT !.opens = @ + 1]]

\* close_browser with self.browser.quit() raising: browser_open was set to
\* False first; the driver is left running or not.
CloseBrowserFailsOn(b, left_running) ==
    IF left_running THEN [b EXCEPT !.browser_open = FALSE] ELSE CloseBrowserOn(b)

OpenBrowserFails(stage) ==
    /\ pc = "idle"
    /\ ~browser_open
    /\ history.opens < MaxOpens
    /\ Becomes(OpenBrowserFailsOn(Cur, stage))
    /\ last_op' = [name |-> "open_browser", warned |-> FALSE, raised |-> stage,
                   before |-> [browser |-> browser, history |-> history]]
    /\ UNCHANGED <<pc, now, last_delay, not_browser>>

CloseBrowserFails(left_running) ==
    /\ pc = "idle"
    /\ browser \in alive
    /\ Becomes(CloseBrowserFailsOn(Cur, left_running))
    /\ last_op' = [name |-> "close_browser", raised |-> TRUE]
    /\ UNCHANGED <<pc, now, last_delay, not_browser>>

\* __exit__: self.close_browser()
Exit ==
    /\ pc = "idle"
    /\ Becomes(CloseBrowserOn(Cur))
    /\ last_op' = [name |-> "__exit__", raised |-> browser = 0]
    /\ UNCHANGED <<pc, now, last_delay, not_browser>>

Urls == {"page_a", "page_b"}

\* get(url): open the browser if it is not open, rotate if due, load url,
\* chill(self.arrival_wait). On a session whose last window was closed,
\* browser.get raises.
Get(url) ==
    /\ pc = "idle"
    /\ LET b1 == IF ~browser_open THEN OpenBrowserOn(Cur, now) ELSE Cur
           due == RotationDue(b1, now)
           b2 == IF due THEN OpenBrowserOn(CloseBrowserOn(StopTimer(b1)), now) ELSE b1
           ok == b2.window_handles # <<>>
       IN /\ b2.history.opens <= MaxOpens
          /\ Becomes(b2)
          /\ last_op' = [name |-> "get", url |-> url, at |-> now,
                         was_open |-> browser_open,
                         since_open |-> IF browser_open THEN now - history.opened_at ELSE 0,
                         before |-> [browser |-> browser, history |-> history],
                         loaded |-> IF ok THEN <<b2.browser, b2.focus, url>> ELSE <<>>,
                         raised |-> ~ok]
          /\ IF ok THEN Chill("get", "arrival", arrival_wait)
                   ELSE UNCHANGED last_delay
    /\ UNCHANGED <<pc, now, not_browser>>

\* ---- tabs

\* the tab state: the window handles, the one switched to, self.tab_index
Tabs == [window_handles |-> window_handles, focus |-> focus, tab_index |-> tab_index]

\* puts x at position j of a sequence
InsertAt(seq, j, x) ==
    [k \in 1..(Len(seq) + 1) |-> IF k < j THEN seq[k] ELSE IF k = j THEN x ELSE seq[k - 1]]

\* the handle of a window opened now
NewHandle == CHOOSE h \in 1..MaxTabs : h \notin Range(window_handles)

\* Where window_handles shows the window opened by window.open: at the end
\* (the order of creation) or right after the window switched to.
NewTabPositions == {Len(window_handles) + 1, Min(tab_index + 2, Len(window_handles) + 1)}

\* the index open_tab switches to
IndexOfNewTab == tab_index + 1

\* open_tab(url, switch_to_tab): window.open(url), then
\* self.switch_to_tab(self.tab_index + 1) when asked
OpenTab(switch) ==
    /\ pc = "idle"
    /\ browser_open
    /\ window_handles # <<>>
    /\ Len(window_handles) < MaxTabs
    /\ \E pos \in NewTabPositions :
         LET handles == InsertAt(window_handles, pos, NewHandle) IN
           /\ window_handles' = handles
           /\ focus' = IF switch THEN handles[IndexOfNewTab + 1] ELSE focus
           /\ tab_index' = IF switch THEN IndexOfNewTab ELSE tab_index
    /\ last_op' = [name |-> "open_tab", switch |-> switch, before |-> Tabs,
                   new_handle |-> NewHandle]
    /\ UNCHANGED <<browser_open, browser, rotation_timer, alive, history>>
    /\ UNCHANGED <<pc, now, last_delay, not_browser>>

\* switch_to_tab(i) with a valid index
SwitchToTab(i) ==
    /\ pc = "idle"
    /\ browser_open
    /\ i \in 0..(Len(window_handles) - 1)
    /\ focus' = window_handles[i + 1]
    /\ tab_index' = i
    /\ last_op' = [name |-> "switch_to_tab", arg |-> i]
    /\ UNCHANGED <<browser_open, browser, rotation_timer, window_handles, alive, history>>
    /\ UNCHANGED <<pc, now, last_delay, not_browser>>

\* the window browser.close() closes: the one switch_to_tab(i) switched to
TabToClose_Current(i) == focus
TabToClose(i) == window_handles[i + 1]

\* close_tab(i) with a valid index: self.switch_to_tab(i); self.browser.close();
\* self.switch_to_tab(0). With no window left, window_handles[0] raises and
\* self.tab_index keeps the value the first switch gave it.
CloseTab(i) ==
    /\ pc = "idle"
    /\ browser_open
    /\ i \in 0..(Len(window_handles) - 1)
    /\ LET closed == TabToClose(i)
           left == SelectSeq(window_handles, LAMBDA h : h # closed)
       IN /\ window_handles' = left
          /\ focus' = IF left # <<>> THEN left[1] ELSE 0
          /\ tab_index' = IF left # <<>> THEN 0 ELSE i
          /\ last_op' = [name |-> "close_tab", arg |-> i, before |-> Tabs,
                         raised |-> left = <<>>]
    /\ UNCHANGED <<browser_open, browser, rotation_timer, alive, history>>
    /\ UNCHANGED <<pc, now, last_delay, not_browser>>

\* -------------------------------------------------------------------------
\* Construction and the specifications
\* -------------------------------------------------------------------------

NoBrowserOp == [name |-> "none"]

\* __init__ up to self.turbo() and the attributes after it
Constructed ==
    /\ pc = "idle"
    /\ now = 0
    /\ start_time = 0
    /\ max_wait = 0
    /\ polling_interval = 0
    /\ cond_result = "none"
    /\ eval_began = 0
    /\ wu_hist = NoHist
    \* self.turbo()
    /\ after_key_wait = ProfileFor(TRUE).after_key_wait
    /\ after_field_wait = ProfileFor(TRUE).after_field_wait
    /\ after_click_wait = ProfileFor(TRUE).after_click_wait
    /\ arrival_wait = ProfileFor(TRUE).arrival_wait
    /\ one_key_at_a_time = ProfileFor(TRUE).one_key_at_a_time
    /\ turbo_engaged = ProfileFor(TRUE).turbo_engaged
    /\ last_engage = TRUE
    /\ last_delay = NoDelay
    /\ op = NoOp
    /\ received = <<>>
    /\ click_list = <<>>
    /\ selected_indexes = <<>>
    /\ gcl = NoCall
    /\ ce = NoElements
    /\ last_op = NoBrowserOp

\* User(): randomize_user_agent=True, user_agent_rotation_period=None,
\* open_browser=True
Init ==
    /\ Constructed
    /\ randomize_user_agent = TRUE
    /\ user_agent_rotation_period = <<>>
    /\ Has(OpenBrowserOn(NeverOpened, 0))

Periods == {<<>>} \cup {<<m>> : m \in 0..MaxPeriod}

\* User(randomize_user_agent, user_agent_rotation_period, open_browser)
InitBrowser ==
    /\ Constructed
    /\ randomize_user_agent \in BOOLEAN
    /\ user_agent_rotation_period \in Periods
    /\ \E open_browser \in BOOLEAN :
         Has(IF open_browser THEN OpenBrowserOn(NeverOpened, 0) ELSE NeverOpened)

NextWait ==
    \/ \E mw \in 0..MaxWait, pi \in 0..MaxPoll : WaitUntil(mw, pi)
    \/ Tick
    \/ \E o \in Outcomes : CondReturns(o)
    \/ Sleep
    \/ SettleSleep

SpecWait == Init /\ [][NextWait]_vars

\* The clock advances, and the thread keeps running.
FairWait == SpecWait /\ WF_vars(NextWait) /\ SF_vars(Tick)

\* turbo, chill and the operations that take delays
NextUser ==
    \/ \E engage \in BOOLEAN : Turbo(engage)
    \/ \E min_max \in Ranges : ChillCall(min_max)
    \/ \E name \in ClickLike : ClickOp(name)
    \/ SelectClick
    \/ SelectField
    \/ \E data \in KeyData, click_first \in BOOLEAN, clear_first \in BOOLEAN :
          SendKeys(data, click_first, clear_first)
    \/ SkClick
    \/ SkClear
    \/ SkKey
    \/ SkTyped
    \/ SkField
    \/ \E data \in DataLists : FillNext(data)
    \/ FnTab
    \/ FnReturn
    \/ FnArrow
    \/ FnArrowDone
    \/ FnSkip
    \/ FnKey
    \/ FnTyped
    \/ FnField

SpecUser == Init /\ [][NextUser]_vars

\* get_click_list, called with num_options >= 1 and
\* 0 <= min_choices <= max_choices <= num_options
NextClick ==
    \/ \E num_options \in 1..MaxOptions :
         \E max_choices \in 0..num_options :
           \E min_choices \in 0..max_choices :
              GetClickList(num_options, max_choices, min_choices)
    \/ GclDraw
    \/ GclRedraw
    \/ GclSelect
    \/ GclReturn

SpecClick == Init /\ [][NextClick]_vars

\* click_elements, called with a non-empty list and
\* 0 <= min_selections <= max_selections <= len(locators), max_selections
\* given or not
NextElements ==
    \/ \E locators \in LocatorLists :
         \E max_selections \in MaxSelectionArgs(Len(locators)) :
           \E min_selections \in 0..(IF max_selections = <<>> THEN Len(locators)
                                                             ELSE max_selections[1]) :
              ClickElements(locators, max_selections, min_selections)
    \/ CeClick
    \/ CeReturn

SpecElements == Init /\ [][NextElements]_vars

\* the browser opened, closed and used by get, with time passing between
\* the calls; close_tab may close its one window
NextBrowser ==
    \/ Elapse
    \/ OpenBrowser
    \/ CloseBrowser
    \/ \E url \in Urls : Get(url)
    \/ CloseTab(0)

SpecBrowser == InitBrowser /\ [][NextBrowser]_vars

\* the browser opened and closed, by hand, by get and by __exit__, where
\* open_browser and close_browser may raise part-way
NextLifecycle ==
    \/ Elapse
    \/ OpenBrowser
    \/ CloseBrowser
    \/ Exit
    \/ \E url \in Urls : Get(url)
    \/ \E stage \in OpenStages : OpenBrowserFails(stage)
    \/ \E left_running \in BOOLEAN : CloseBrowserFails(left_running)

SpecLifecycle == InitBrowser /\ [][NextLifecycle]_vars

\* the tabs of the browser
NextTabs ==
    \/ \E switch \in BOOLEAN : OpenTab(switch)
    \/ \E i \in 0..(MaxTabs - 1) : SwitchToTab(i)
    \/ \E i \in 0..(MaxTabs - 1) : CloseTab(i)
    \/ OpenBrowser
    \/ CloseBrowser

SpecTabs == Init /\ [][NextTabs]_vars

\* -------------------------------------------------------------------------
\* Claims about wait_until
\* -------------------------------------------------------------------------

WuPositions == {"wu_eval", "wu_sleep", "wu_sleep_h", "wu_settle"}

\* C1: a call of wait_until is either still polling or has ended in one of
\* two ways, Success or TimedOut (TimeoutError); no other exception leaves
\* the call, and Success is reached only after condition() returned true.
C1_SuccessOrTimedOut ==
    /\ pc \in {"idle"} \cup WuPositions \cup {"Success", "TimedOut"}
    /\ pc \in {"wu_settle", "Success"} => cond_result = "true"

\* A call that ended in Success after condition() had raised and had
\* returned false.
C1_Witness ==
    pc = "Success" /\ wu_hist.raises >= 1 /\ wu_hist.falses >= 1

\* C2 (as claimed): no call returns success from an evaluation of
\* condition() that began when the elapsed time already exceeded max_wait.
C2_NoSuccessBegunLate ==
    pc \in {"wu_settle", "Success"} => ~((eval_began - start_time) > max_wait)

\* C3: an exception raised by condition() never leaves the call and is
\* handled like a false result (TimedOut when the evaluation finished after
\* max_wait, otherwise sleep and retry); as long as every evaluation so far
\* raised within max_wait or returned true, the call is polling or succeeds.
C3_RaiseIsNotYetTrue ==
    /\ pc # "Raised"
    /\ cond_result \in {"false", "raise"} =>
          IF wu_hist.last_late THEN pc = "TimedOut"
          ELSE pc \in {"wu_sleep", "wu_sleep_h", "wu_eval"}
    /\ (pc # "idle" /\ wu_hist.falses = 0 /\ ~wu_hist.late) =>
          pc \in {"wu_eval", "wu_sleep_h", "wu_settle", "Success"}
    /\ (cond_result = "true" /\ wu_hist.falses = 0 /\ ~wu_hist.late) =>
          pc \in {"wu_settle", "Success"}

\* condition() raised on its first two evaluations, then returned true.
C3_Witness ==
    /\ pc = "Success"
    /\ wu_hist.evals = 3 /\ wu_hist.raises = 2 /\ wu_hist.falses = 0

\* C4: TimeoutError is raised only when the elapsed time read is strictly
\* greater than max_wait, and, the clock advancing, a call whose condition
\* never returns true does raise it.
C4_TimesOutOnlyAfterMaxWait ==
    /\ [](pc = "TimedOut" => wu_hist.raised_at > max_wait /\ cond_result # "true")
    /\ (pc = "wu_eval") ~> (pc = "TimedOut" \/ cond_result = "true")

\* A call that timed out after the condition both raised and returned false.
C4_Witness ==
    /\ pc = "TimedOut"
    /\ wu_hist.raises >= 1 /\ wu_hist.falses >= 1
    /\ wu_hist.raised_at = max_wait + 1


\* -------------------------------------------------------------------------
\* Claims about the timing profile and the delays
\* -------------------------------------------------------------------------

\* C5: in every state the six profile attributes together equal the turbo
\* profile or the human profile, whichever the most recent call of turbo
\* asked for (turbo after construction); no state mixes the two.
C5_ProfileIsWhole ==
    <<after_key_wait, after_field_wait, after_click_wait, arrival_wait,
      one_key_at_a_time, turbo_engaged>>
    = IF last_engage
      THEN <<(<<0, 0>>), (<<0, 0>>), (<<0, 0>>), (<<1000, 1000>>), FALSE, TRUE>>
      ELSE <<(<<100, 500>>), (<<1000, 2000>>), (<<250, 1500>>), (<<4000, 10000>>),
             TRUE, FALSE>>

\* The human profile in force after turbo was disengaged, seen while
\* send_keys is typing.
C5_Witness ==
    /\ ~last_engage /\ ~turbo_engaged /\ one_key_at_a_time
    /\ after_click_wait = <<250, 1500>>
    /\ pc = "sk_type"

\* C6: every delay taken by chill lies within the range it was given, and
\* with turbo engaged every delay after a keystroke, a field or a click,
\* whichever operation takes it, is exactly zero.
C6_DelayWithinRange ==
    /\ last_delay.range[1] <= last_delay.d
    /\ last_delay.d <= last_delay.range[2]
    /\ (last_delay.turbo /\ last_delay.after \in {"key", "field", "click"}) =>
          last_delay.d = 0

\* fill_next, turbo engaged, took its zero delay after a field.
C6_Witness ==
    /\ last_delay.by = "fill_next" /\ last_delay.after = "field"
    /\ last_delay.turbo /\ last_delay.d = 0
    /\ pc = "fn_next"

\* -------------------------------------------------------------------------
\* Claims about get_click_list
\* -------------------------------------------------------------------------

SpaceSlots == {j \in 1..Len(click_list) : click_list[j] = "SPACE"}

\* C7: the list get_click_list returns has num_options entries; those equal
\* to SPACE number between min_choices and max_choices and sit at as many
\* distinct indexes, the ones selected; every other entry is 'skip'.
C7_ClickListShape ==
    gcl.returned =>
        /\ Len(click_list) = gcl.num_options
        /\ Cardinality(SpaceSlots) >= gcl.min_choices
        /\ Cardinality(SpaceSlots) <= gcl.max_choices
        /\ Cardinality(SpaceSlots) = Len(selected_indexes)
        /\ SpaceSlots = {ix + 1 : ix \in Range(selected_indexes)}
        /\ \A j \in 1..Len(click_list) : j \notin SpaceSlots => click_list[j] = "skip"
        /\ (gcl.min_choices = 1 /\ gcl.max_choices = 1) =>
              Cardinality({j \in 1..Len(click_list) : click_list[j] # "skip"}) = 1

\* A returned list of three options with two of them chosen, the second
\* drawn after the first.
C7_Witness ==
    /\ gcl.returned
    /\ gcl.num_options = 3 /\ gcl.min_choices = 1 /\ gcl.max_choices = 3
    /\ selected_indexes = <<2, 0>>
    /\ click_list = <<"SPACE", "skip", "SPACE">>

\* -------------------------------------------------------------------------
\* Claims about the text typed
\* -------------------------------------------------------------------------

\* the sends an element received, joined in order
RECURSIVE Flatten(_)
Flatten(sends) == IF sends = <<>> THEN <<>> ELSE Head(sends) \o Flatten(Tail(sends))

\* str(datum), written out for the data of the model
Shown(datum) ==
    CASE datum.type = "str" -> datum.val
      [] datum.type = "int" /\ datum.val = 7 -> <<"7">>
      [] datum.type = "int" /\ datum.val = 10 -> <<"1", "0">>

\* a text sent one character at a time
OneByOne(text) == [i \in 1..Len(text) |-> <<text[i]>>]

\* send_keys or fill_next is done with a string: it typed it, or left by
\* an exception
DoneWithString ==
    \/ pc = "sk_field"
    \/ pc \in {"fn_field", "fn_raised"} /\ op.datum.type = "str"

\* C12 (as claimed): one_key_at_a_time is the opposite of turbo_engaged in
\* every state, so send_keys and fill_next agree on the mode; with turbo
\* engaged each string is sent in a single send, with turbo disengaged one
\* character at a time in order, and what the element receives for a datum
\* joins to str(datum).
C12_SameTextInBothModes ==
    /\ one_key_at_a_time = ~turbo_engaged
    /\ pc \in {"sk_type", "fn_type"} =>
          Flatten(received) \o op.todo = Shown(op.datum)
    /\ DoneWithString =>
          /\ Flatten(received) = Shown(op.datum)
          /\ received = IF turbo_engaged THEN <<Shown(op.datum)>>
                                         ELSE OneByOne(Shown(op.datum))

\* -------------------------------------------------------------------------
\* Claims about click_elements
\* -------------------------------------------------------------------------

\* the largest number of clicks the caller allowed
MaxAllowed == IF ce.max_selections = <<>> THEN Len(ce.locators) ELSE ce.max_selections[1]

\* C11 (as claimed): click_elements never ends in an exception; when it
\* returns it has clicked k entries of locators with
\* min_selections <= k <= max_selections (len(locators) when max_selections
\* is not given), no entry twice, and it returns the last element clicked.
C11_ClicksBetweenMinAndMax ==
    /\ pc # "ce_raised"
    /\ (pc = "idle" /\ ce.locators # <<>>) =>
          /\ Len(ce.clicked) = ce.k
          /\ ce.min_selections <= ce.k
          /\ ce.k <= MaxAllowed
          /\ \A i, j \in 1..Len(ce.clicked) : i # j => ce.clicked[i] # ce.clicked[j]
          /\ \A i \in 1..Len(ce.clicked) : ce.clicked[i] \in 1..Len(ce.locators)
          /\ ce.returned = <<ce.locators[ce.clicked[Len(ce.clicked)]]>>

\* -------------------------------------------------------------------------
\* Claims about get and the tabs
\* -------------------------------------------------------------------------

\* browsers quit by the last call of get
QuitsOfGet == history.quits - last_op.before.history.quits

\* C8: a call of get closes the browser and reopens it exactly when
\* randomize_user_agent is True, the rotation period is not None and more
\* than that many minutes had passed since the browser was last opened; it
\* does so at most once, restarts the rotation timer, loads the url in the
\* reopened browser, and never closes a browser when randomize_user_agent is
\* False.
C8_RotatesExactlyWhenDue ==
    last_op.name = "get" =>
        LET due == /\ randomize_user_agent
                   /\ user_agent_rotation_period # <<>>
                   /\ last_op.since_open > 60 * user_agent_rotation_period[1]
        IN /\ QuitsOfGet <= 1
           /\ (QuitsOfGet = 1) <=> due
           /\ ~randomize_user_agent => QuitsOfGet = 0
           /\ due => /\ last_op.before.browser \notin alive
                     /\ browser # last_op.before.browser
                     /\ browser \in alive
                     /\ browser_open
                     /\ history.opens = last_op.before.history.opens + 1
                     /\ rotation_timer = [started |-> TRUE, start_time |-> last_op.at]
                     /\ last_op.loaded = <<browser, focus, last_op.url>>

\* get rotated the user agent 90 seconds after the browser was opened, the
\* period being one minute.
C8_Witness ==
    /\ last_op.name = "get"
    /\ user_agent_rotation_period = <<1>>
    /\ last_op.since_open = 90
    /\ QuitsOfGet = 1
    /\ browser = 2

\* C9 (as claimed): after open_tab with switch_to_tab=True the browser is
\* focused on the new tab, which sits at tab_index, the old tab_index + 1;
\* with switch_to_tab=False focus and tab_index are unchanged.
C9_OpenTabSwitchesToNewTab ==
    last_op.name = "open_tab" =>
        IF last_op.switch
        THEN /\ focus = last_op.new_handle
             /\ window_handles[tab_index + 1] = last_op.new_handle
             /\ tab_index = last_op.before.tab_index + 1
        ELSE /\ focus = last_op.before.focus
             /\ tab_index = last_op.before.tab_index

\* removes the element at position j of a sequence
RemoveAt(seq, j) == [k \in 1..(Len(seq) - 1) |-> IF k < j THEN seq[k] ELSE seq[k + 1]]

\* what C10 says of the state after close_tab
ClosedAndAtTabZero ==
    /\ window_handles = RemoveAt(last_op.before.window_handles, last_op.arg + 1)
    /\ Len(window_handles) = Len(last_op.before.window_handles) - 1
    /\ window_handles # <<>>
    /\ focus = window_handles[1]
    /\ tab_index = 0

\* C10 (as claimed): after close_tab(tab_index), from every tab state and
\* for every valid index, exactly that tab is gone, the others keep their
\* order, and the browser is focused on the tab at index 0 with
\* self.tab_index = 0.
C10_CloseTabFromAnyState ==
    last_op.name = "close_tab" => ClosedAndAtTabZero

\* C10 (amended): the same, from every tab state with at least two tabs.
C10_CloseTabLeavingATab ==
    (last_op.name = "close_tab" /\ Len(last_op.before.window_handles) >= 2) =>
        ClosedAndAtTabZero

\* close_tab(1) with three tabs open and the third one active.
C10_Witness ==
    /\ last_op.name = "close_tab"
    /\ last_op.arg = 1
    /\ Len(last_op.before.window_handles) = 3
    /\ last_op.before.tab_index = 2
    /\ tab_index = 0 /\ focus = window_handles[1]

\* -------------------------------------------------------------------------
\* Claims about the browser instance
\* -------------------------------------------------------------------------

\* C13 (as claimed): at most one driver created by the User is alive, and
\* browser_open is True exactly when one is, which self.browser then refers
\* to; open_browser called while browser_open is True creates no instance;
\* get called while browser_open is False opens one and loads the url in
\* it; all this also after open_browser or close_browser raised part-way.
C13_OneLiveBrowserIffOpen ==
    /\ Cardinality(alive) <= 1
    /\ browser_open <=> alive # {}
    /\ browser_open => browser \in alive
    /\ (last_op.name = "open_browser" /\ last_op.warned) =>
          /\ browser = last_op.before.browser
          /\ history.opens = last_op.before.history.opens
    /\ (last_op.name = "get" /\ ~last_op.was_open) =>
          /\ browser_open
          /\ history.opens > last_op.before.history.opens
          /\ last_op.loaded = <<browser, focus, last_op.url>>

====
